---- MODULE Spec2Model ----
(***************************************************************************)
(* NYC Citi Bike dashboard: the data loader (candidate-file probing, the   *)
(* synthetic fallback, Streamlit's @st.cache_data memoization) and the     *)
(* page that consumes its result.                                          *)
(*                                                                         *)
(* The loader modelled is load_dashboard_data of                           *)
(* notebooks/nyc_bike_dashboard.py; pages/nyc_bike_dashboard.py runs the   *)
(* same two probe loops over six candidates per list and emits no          *)
(* "Loaded ... from" notice.                                               *)
(*                                                                         *)
(* Further: the synthetic generators of all dashboard variants, run one    *)
(* date at a time (SpecGen), and the map block of the page with map files  *)
(* coming and going (SpecMap).                                             *)
(***************************************************************************)
EXTENDS Integers, Sequences, FiniteSets, TLC

VARIABLES
    fs,        \* the file system: candidate path -> content
    fsOps,     \* number of file-system changes made so far
    cache,     \* the @st.cache_data store of load_dashboard_data
    rng,       \* state of numpy's global random generator
    out,       \* what the latest script run (page load) did and showed
    firstLoad, \* file system and generator state at the first load of this
               \* process that returned
    prevSample,\* daily table of the last create_sample_data() call of an
               \* earlier process
    trips,     \* the raw trip table given to the aggregator
    agg,       \* what the aggregator has computed from trips
    gen,       \* the synthetic generator that is running: which variant,
               \* how far it is, the row it built last
    mapFs,     \* the file system: candidate map path -> content
    mapView,   \* what the map block of the latest script run did and showed
    view       \* what the latest script run of a part 2 dashboard showed

dashVars == <<fs, fsOps, cache, rng, out, firstLoad, prevSample, mapFs, mapView>>
aggVars == <<trips, agg>>
genVars == <<gen>>
vars == <<fs, fsOps, cache, rng, out, firstLoad, prevSample, trips, agg, gen, mapFs, mapView, view>>

---------------------------------------------------------------------------
(* Bounds of the model *)

MaxFsOps == 2      \* file-system changes explored
RngPeriod == 3     \* period of the modelled random stream
MaxTrips == 3      \* rows of a raw trip table
MaxN == 3          \* largest n asked of computeTopStations
MaxSigma == 13     \* largest normal draw considered, in standard deviations

---------------------------------------------------------------------------
(* Candidate paths *)

possible_station_files ==
    << "top_20_stations_full.csv",
       "top_20_stations.csv",
       "../data/processed/top_20_stations.csv" >>

possible_daily_files ==
    << "daily_aggregated_data_full.csv",
       "daily_aggregated_data.csv",
       "../data/processed/daily_aggregated_data.csv" >>

Range(s) == { s[i] : i \in 1..Len(s) }

StationPaths == Range(possible_station_files)
DailyPaths == Range(possible_daily_files)
Paths == StationPaths \cup DailyPaths

---------------------------------------------------------------------------
(* Calendar: a date is the number of days since 2021-01-01 (day 0).        *)
(* 2021 and 2022 are both 365-day years.                                   *)

DaysInYear == 365

CumDays == << 0, 31, 59, 90, 120, 151, 181, 212, 243, 273, 304, 334, 365 >>

DayOfYear(d) == (d % DaysInYear) + 1

MonthOf(d) ==
    CHOOSE m \in 1..12 : CumDays[m] < DayOfYear(d) /\ DayOfYear(d) <= CumDays[m + 1]

\* pd.date_range('2021-01-30', '2022-12-31', freq='D')
SampleStart == 29
SampleEnd == 729
SampleLen == SampleEnd - SampleStart + 1

---------------------------------------------------------------------------
(* Data frames *)

(* A frame is None, a table of explicit rows, or the daily table of        *)
(* create_sample_data, which is kept as the generator state it was drawn   *)
(* from and expanded by Rows.                                              *)

NoneDF == [kind |-> "None", rows |-> << >>, rng |-> 0]
DataFrame(rows) == [kind |-> "rows", rows |-> rows, rng |-> 0]
SampleDaily(g) == [kind |-> "sample", rows |-> << >>, rng |-> g]

stations ==
    << "W 21 St & 6 Ave", "West St & Chambers St", "Broadway & W 58 St",
       "6 Ave & W 33 St", "1 Ave & E 68 St", "Broadway & E 14 St",
       "Broadway & W 25 St", "University Pl & E 14 St", "Broadway & E 21 St",
       "W 31 St & 7 Ave", "E 33 St & 1 Ave", "Cleveland Pl & Spring St",
       "12 Ave & W 40 St", "6 Ave & W 34 St", "West St & Liberty St",
       "11 Ave & W 41 St", "Lafayette St & E 8 St", "Central Park S & 6 Ave",
       "E 40 St & Park Ave", "8 Ave & W 33 St" >>

trip_counts ==
    << 129018, 128456, 127890, 126543, 125678, 124321, 123456, 122890, 121234, 120567,
       119876, 119123, 118456, 117890, 117123, 116456, 115789, 115123, 114456, 113789 >>

StationRow(n, c) == [start_station_name |-> n, trip_count |-> c]
DailyRow(d, t, f) == [date |-> d, daily_trips |-> t, temperature |-> f]

---------------------------------------------------------------------------
(* numpy's global generator.  The state is a position in a fixed stream of *)
(* standard-normal draws (in whole standard deviations); drawing n values  *)
(* reads n consecutive positions and advances the state by n.  The process *)
(* seeds it from OS entropy at start.                                      *)

Seeds == 0..(RngPeriod - 1)

StdNormal(g, i) == ((g + i) % RngPeriod) - (RngPeriod \div 2)

Advance(g, n) == (g + n) % RngPeriod

\* the values a draw of np.random.normal can take, in standard deviations
NoiseZ == (0 - MaxSigma)..MaxSigma

---------------------------------------------------------------------------
(* create_sample_data *)

base_trips == 80000
trips_sigma == 5000
temp_sigma == 5
seasonal_amplitude == 20000

\* sin(2*pi*doy/365) * 1000, by Bhaskara's rational approximation of the sine
SinMilli(doy) ==
    LET v == (2 * doy) % (2 * DaysInYear)
        h == IF v <= DaysInYear THEN v ELSE v - DaysInYear
        p == h * (DaysInYear - h)
        q == (16 * p * 1000) \div (5 * DaysInYear * DaysInYear - 4 * p)
    IN  IF v <= DaysInYear THEN q ELSE 0 - q

seasonal_variation(d) == SinMilli(DayOfYear(d)) * (seasonal_amplitude \div 1000)

monthly_temps == << 32, 35, 42, 53, 63, 72, 77, 76, 68, 57, 48, 38 >>

\* daily_trips and temperature of create_sample_data on date d, the normal
\* draw being z standard deviations
sample_daily_trips(d, z) == base_trips + seasonal_variation(d) + trips_sigma * z

\* a temperature that looks its month up by the day of the month
sample_temperature_by_day(d, z) ==
    monthly_temps[((DayOfYear(d) - CumDays[MonthOf(d)] - 1) % 12) + 1] + temp_sigma * z

sample_temperature(d, z) == monthly_temps[MonthOf(d)] + temp_sigma * z

\* row i (1-based) of the daily table create_sample_data builds when the
\* generator is in state g: the trip noise is drawn first, the temperature
\* noise after it
SampleDailyRow(g, i) ==
    LET d == SampleStart + i - 1
    IN  DailyRow(d,
                 sample_daily_trips(d, StdNormal(g, i - 1)),
                 sample_temperature(d, StdNormal(g, SampleLen + i - 1)))

SampleStations ==
    DataFrame([i \in 1..Len(stations) |-> StationRow(stations[i], trip_counts[i])])

SampleDailyRows(g) == [i \in 1..SampleLen |-> SampleDailyRow(g, i)]

Rows(df) == IF df.kind = "sample" THEN SampleDailyRows(df.rng) ELSE df.rows

NumRows(df) == IF df.kind = "sample" THEN SampleLen ELSE Len(df.rows)

\* the pair create_sample_data returns with the generator in state g, and the
\* generator state it leaves (two normal(..., len(dates)) calls)
create_sample_data(g) ==
    [top_stations |-> SampleStations,
     daily_data   |-> SampleDaily(g),
     rng          |-> Advance(g, 2 * SampleLen)]

---------------------------------------------------------------------------
(* File contents.  A path is absent, or exists and cannot be parsed by     *)
(* pd.read_csv (an empty file, a directory), or holds a CSV.  For a daily  *)
(* CSV, date says what pd.to_datetime(daily_data['date']) meets.           *)

Absent == [kind |-> "absent", date |-> "", rows |-> << >>]
Unreadable == [kind |-> "unreadable", date |-> "", rows |-> << >>]
Csv(date, rows) == [kind |-> "csv", date |-> date, rows |-> rows]

TopN == 20

StationTables ==
    { << >>,
      << StationRow(stations[1], 5), StationRow(stations[2], 3) >>,
      << StationRow(stations[1], 3), StationRow(stations[2], 5) >>,
      [i \in 1..(TopN + 1) |-> StationRow(stations[((i - 1) % Len(stations)) + 1], 5)] }

DailyTables ==
    { << >>,
      << DailyRow(0, 4, 30), DailyRow(1, 6, 40) >> }

StationContents == { Unreadable } \cup { Csv("", t) : t \in StationTables }

DailyContents ==
    { Unreadable, Csv("missing", << >>), Csv("unparseable", << >>) }
        \cup { Csv("ok", t) : t \in DailyTables }

Contents(p) == IF p \in StationPaths THEN StationContents ELSE DailyContents

\* os.path.exists
Exists(f, p) == f[p].kind # "absent"

---------------------------------------------------------------------------
(* load_dashboard_data *)

\* the probe loop without its break: every candidate is probed and the last
\* existing one is what stays loaded
RECURSIVE ProbeLoopNoBreak(_, _, _)
ProbeLoopNoBreak(f, files, i) ==
    IF i > Len(files) THEN [probed |-> << >>, hit |-> 0]
    ELSE LET r == ProbeLoopNoBreak(f, files, i + 1)
         IN  [probed |-> << i >> \o r.probed,
              hit |-> IF r.hit # 0 THEN r.hit
                      ELSE IF Exists(f, files[i]) THEN i ELSE 0]

\* for file_path in files: if os.path.exists(file_path): ...; break
\* from index i on: the indices probed, in order, and the index whose body
\* ran (0 when the loop ran to its end)
RECURSIVE ProbeLoop(_, _, _)
ProbeLoop(f, files, i) ==
    IF i > Len(files) THEN [probed |-> << >>, hit |-> 0]
    ELSE IF Exists(f, files[i]) THEN [probed |-> << i >>, hit |-> i]
    ELSE LET r == ProbeLoop(f, files, i + 1)
         IN  [probed |-> << i >> \o r.probed, hit |-> r.hit]

PathsAt(files, idx) == [k \in 1..Len(idx) |-> files[idx[k]]]

Notice(kind, text, path) == [kind |-> kind, text |-> text, path |-> path]

SampleWarning ==
    Notice("warning", "Using sample data - CSV files not found. Please run the notebook first.", "")

\* a run of the function body that ended in an exception
LoadRaised(exc, probed, read, notices, g) ==
    [status |-> "raised", exc |-> exc,
     top_stations |-> NoneDF, daily_data |-> NoneDF,
     probed |-> probed, read |-> read, notices |-> notices,
     sampled |-> FALSE, rng |-> g]

\* a run of the function body that returned
LoadReturned(top, daily, probed, read, notices, sampled, g) ==
    [status |-> "returned", exc |-> "",
     top_stations |-> top, daily_data |-> daily,
     probed |-> probed, read |-> read, notices |-> notices,
     sampled |-> sampled, rng |-> g]

\* a fallback that calls create_sample_data() and drops what it returns
FallbackDropsSample(top, daily, probed, read, notices, g) ==
    IF top = NoneDF \/ daily = NoneDF
    THEN LET c == create_sample_data(g)
         IN  LoadReturned(top, daily, probed, read,
                          notices \o << SampleWarning >>, TRUE, c.rng)
    ELSE LoadReturned(top, daily, probed, read, notices, FALSE, g)

\* a fallback taken whatever was loaded
FallbackAlways(top, daily, probed, read, notices, g) ==
    LET c == create_sample_data(g)
    IN  LoadReturned(c.top_stations, c.daily_data, probed, read,
                     notices \o << SampleWarning >>, TRUE, c.rng)

\* a fallback that replaces only the table that was not loaded
FallbackPerTable(top, daily, probed, read, notices, g) ==
    IF top = NoneDF \/ daily = NoneDF
    THEN LET c == create_sample_data(g)
         IN  LoadReturned(IF top = NoneDF THEN c.top_stations ELSE top,
                          IF daily = NoneDF THEN c.daily_data ELSE daily,
                          probed, read, notices \o << SampleWarning >>, TRUE, c.rng)
    ELSE LoadReturned(top, daily, probed, read, notices, FALSE, g)

\* if top_stations is None or daily_data is None: warn and take the pair of
\* create_sample_data(); return the pair
FallbackOrLoaded(top, daily, probed, read, notices, g) ==
    IF top = NoneDF \/ daily = NoneDF
    THEN LET c == create_sample_data(g)
         IN  LoadReturned(c.top_stations, c.daily_data, probed, read,
                          notices \o << SampleWarning >>, TRUE, c.rng)
    ELSE LoadReturned(top, daily, probed, read, notices, FALSE, g)

\* the exception pd.read_csv(path) / pd.to_datetime(daily_data['date']) ends
\* in for content c of a daily file, "" when there is none
DailyError(c) ==
    IF c.kind = "unreadable" THEN "EmptyDataError"
    ELSE IF c.date = "missing" THEN "KeyError"
    ELSE IF c.date = "unparseable" THEN "ValueError"
    ELSE ""

\* the body of load_dashboard_data run on file system f with the generator
\* in state g
load_dashboard_data(f, g) ==
    LET s  == ProbeLoop(f, possible_station_files, 1)
        sp == PathsAt(possible_station_files, s.probed)
        sf == IF s.hit = 0 THEN "" ELSE possible_station_files[s.hit]
        sr == IF s.hit = 0 THEN << >> ELSE << sf >>
    IN  IF s.hit # 0 /\ f[sf].kind = "unreadable"
        THEN LoadRaised("EmptyDataError", sp, sr, << >>, g)
        ELSE
        LET top == IF s.hit = 0 THEN NoneDF ELSE DataFrame(f[sf].rows)
            sn  == IF s.hit = 0 THEN << >>
                   ELSE << Notice("success", "Loaded stations from", sf) >>
            d   == ProbeLoop(f, possible_daily_files, 1)
            dp  == PathsAt(possible_daily_files, d.probed)
            df  == IF d.hit = 0 THEN "" ELSE possible_daily_files[d.hit]
            dr  == IF d.hit = 0 THEN << >> ELSE << df >>
        IN  IF d.hit # 0 /\ DailyError(f[df]) # ""
            THEN LoadRaised(DailyError(f[df]), sp \o dp, sr \o dr, sn, g)
            ELSE
            LET daily == IF d.hit = 0 THEN NoneDF ELSE DataFrame(f[df].rows)
                dn    == IF d.hit = 0 THEN << >>
                         ELSE << Notice("success", "Loaded daily data from", df) >>
            IN  FallbackOrLoaded(top, daily, sp \o dp, sr \o dr, sn \o dn, g)

---------------------------------------------------------------------------
(* @st.cache_data on a function without arguments: one entry.  A call      *)
(* returns the stored value when there is one; otherwise it runs the body, *)
(* and stores what it returned.  A body that raises stores nothing.        *)

NoRun == LoadRaised("", << >>, << >>, << >>, 0)

EmptyCache == [filled |-> FALSE, value |-> NoRun]

\* a cache that never answers: the body runs on every call
CacheLookupNever(c) == FALSE

CacheLookup(c) == c.filled

CacheStore(c, r) ==
    IF r.status = "returned" THEN [filled |-> TRUE, value |-> r] ELSE c

---------------------------------------------------------------------------
(* The page below the load: sidebar metrics, charts, the four KPIs.        *)

\* top_stations.iloc[0] of the kpi3 block
Iloc0(df) == IF NumRows(df) = 0 THEN "IndexError" ELSE ""

NoOutcome == [status |-> "none", hit |-> FALSE, run |-> NoRun, exc |-> "", busiest |-> 0]

\* the script run: the cached call, then the page.  r is the value the call
\* gave (or the run that raised), hit says whether it came from the cache
ScriptRun(r, hit) ==
    IF r.status = "raised"
    THEN [status |-> "load_raised", hit |-> hit, run |-> r, exc |-> r.exc, busiest |-> 0]
    ELSE IF Iloc0(r.top_stations) # ""
    THEN [status |-> "page_raised", hit |-> hit, run |-> r,
          exc |-> Iloc0(r.top_stations), busiest |-> 0]
    ELSE [status |-> "rendered", hit |-> hit, run |-> r,
          exc |-> "", busiest |-> Rows(r.top_stations)[1].trip_count]

\* the load of the latest script run gave the page a pair of tables
Loaded == out.status \in {"page_raised", "rendered"}

---------------------------------------------------------------------------
(* The aggregator that turns raw trips into the two tables the CSV files   *)
(* hold.  Its code is in the repository's notebooks; it is modelled from   *)
(* the specification (section 4.2).                                        *)

TripStations == {"A", "B", "C"}
TripDates == {3, 40}

\* started_at: a timestamp that parses to a date, or one that does not
Timestamps == { [ok |-> TRUE, date |-> d] : d \in TripDates } \cup { [ok |-> FALSE, date |-> 0] }

TripRecord(n, t) == [start_station_name |-> n, started_at |-> t]

TripRecords == { TripRecord(n, t) : n \in TripStations, t \in Timestamps }

TripTables == UNION { [1..k -> TripRecords] : k \in 0..MaxTrips }

\* the distinct station names of t in order of first appearance
RECURSIVE FirstSeen(_)
FirstSeen(t) ==
    IF t = << >> THEN << >>
    ELSE LET h == FirstSeen(SubSeq(t, 1, Len(t) - 1))
             n == t[Len(t)].start_station_name
         IN  IF n \in Range(h) THEN h ELSE Append(h, n)

\* a count of the distinct start times of a station instead of its rows
CountOfDistinct(t, n) ==
    Cardinality({ t[i].started_at : i \in { j \in 1..Len(t) : t[j].start_station_name = n } })

\* group size: the number of rows of t that start at station n
CountOf(t, n) == Cardinality({ i \in 1..Len(t) : t[i].start_station_name = n })

\* one row per distinct station, in order of first appearance
StationAggregates(t) ==
    LET names == FirstSeen(t)
    IN  [k \in 1..Len(names) |-> StationRow(names[k], CountOf(t, names[k]))]

\* an insertion that puts r before the rows of equal count
RECURSIVE InsertByCountUnstable(_, _)
InsertByCountUnstable(s, r) ==
    IF s = << >> THEN << r >>
    ELSE IF Head(s).trip_count > r.trip_count
         THEN << Head(s) >> \o InsertByCountUnstable(Tail(s), r)
         ELSE << r >> \o s

\* r inserted into s, which is in descending order of count, behind every
\* row whose count is at least r's
RECURSIVE InsertByCount(_, _)
InsertByCount(s, r) ==
    IF s = << >> THEN << r >>
    ELSE IF Head(s).trip_count >= r.trip_count
         THEN << Head(s) >> \o InsertByCount(Tail(s), r)
         ELSE << r >> \o s

\* stable sort by count, descending
RECURSIVE SortByCountDesc(_)
SortByCountDesc(s) ==
    IF s = << >> THEN << >>
    ELSE InsertByCount(SortByCountDesc(SubSeq(s, 1, Len(s) - 1)), s[Len(s)])

computeTopStations(t, n) ==
    LET sorted == SortByCountDesc(StationAggregates(t))
    IN  SubSeq(sorted, 1, IF n < Len(sorted) THEN n ELSE Len(sorted))

\* the rows whose started_at parses
ValidRows(t) == SelectSeq(t, LAMBDA r : r.started_at.ok)

RECURSIVE Ascending(_)
Ascending(D) ==
    IF D = {} THEN << >>
    ELSE LET m == CHOOSE x \in D : \A y \in D : x <= y
         IN  << m >> \o Ascending(D \ {m})

\* a series that fills the calendar between the first and the last date
SeriesDatesFilled(v) ==
    LET D == { v[i].started_at.date : i \in 1..Len(v) }
    IN  IF D = {} THEN << >>
        ELSE Ascending({ d \in 0..SampleEnd : \E a \in D : \E b \in D : a <= d /\ d <= b })

\* the group keys of the daily series: the dates that occur, ascending
SeriesDates(v) == Ascending({ v[i].started_at.date : i \in 1..Len(v) })

\* no temperature column in the trips: the generator's month table stands in
computeDailySeries(t) ==
    LET v == ValidRows(t)
        dates == SeriesDates(v)
    IN  [k \in 1..Len(dates) |->
            DailyRow(dates[k],
                     Cardinality({ i \in 1..Len(v) : v[i].started_at.date = dates[k] }),
                     monthly_temps[MonthOf(dates[k])])]

NoAgg == [top_done |-> FALSE, n |-> 0, top |-> << >>, stations |-> << >>,
          daily_done |-> FALSE, daily |-> << >>]

---------------------------------------------------------------------------
(* The synthetic generators of the dashboard variants.  Each variant       *)
(* builds its tables in code of its own; the station tables are literal    *)
(* lists in every one of them.                                             *)

PagesDashboard == "pages/nyc_bike_dashboard.py"
NotebooksDashboard == "notebooks/nyc_bike_dashboard.py"
WeatherImpact == "pages/2_Weather_Impact.py"
PopularStations == "pages/3_Popular_Stations.py"
PagesPart2 == "pages/nyc_bike_dashboard_part_2.py"
NotebooksPart2 == "notebooks/nyc_bike_dashboard_part_2.py"

\* the variants that build a station table, and those that build a daily one
StationVariants ==
    { PagesDashboard, NotebooksDashboard, PopularStations, PagesPart2, NotebooksPart2 }

DailyVariants ==
    { PagesDashboard, NotebooksDashboard, WeatherImpact, PagesPart2, NotebooksPart2 }

GenVariants == StationVariants \cup DailyVariants

\* create_sample_data of pages/nyc_bike_dashboard.py
pages_stations ==
    << "W 21 St & 6 Ave", "West St & Chambers St", "Broadway & W 58 St",
       "6 Ave & W 33 St", "1 Ave & E 68 St", "Broadway & E 14 St",
       "Broadway & W 25 St", "University Pl & E 14 St", "Broadway & E 21 St",
       "W 31 St & 7 Ave", "E 33 St & 1 Ave", "Cleveland Pl & Spring St",
       "12 Ave & W 40 St", "6 Ave & W 34 St", "West St & Liberty St",
       "11 Ave & W 41 St", "Lafayette St & E 8 St", "Central Park S & 6 Ave",
       "E 40 St & Park Ave", "8 Ave & W 33 St" >>

pages_trip_counts ==
    << 129018, 128456, 127890, 126543, 125678, 124321, 123456, 122890,
       121234, 120567, 119876, 119123, 118456, 117890, 117123, 116456,
       115789, 115123, 114456, 113789 >>

\* load_station_data of pages/3_Popular_Stations.py
popular_stations ==
    << "W 21 St & 6 Ave", "West St & Chambers St", "Broadway & W 58 St",
       "6 Ave & W 33 St", "1 Ave & E 68 St", "Broadway & E 14 St",
       "Broadway & W 25 St", "University Pl & E 14 St", "Broadway & E 21 St",
       "W 31 St & 7 Ave", "E 33 St & 1 Ave", "Cleveland Pl & Spring St",
       "12 Ave & W 40 St", "6 Ave & W 34 St", "West St & Liberty St",
       "11 Ave & W 41 St", "Lafayette St & E 8 St", "Central Park S & 6 Ave",
       "E 40 St & Park Ave", "8 Ave & W 33 St" >>

popular_trip_counts ==
    << 129018, 128456, 127890, 126543, 125678, 124321, 123456, 122890,
       121234, 120567, 119876, 119123, 118456, 117890, 117123, 116456,
       115789, 115123, 114456, 113789 >>

\* load_dashboard_data of pages/nyc_bike_dashboard_part_2.py
part2_stations ==
    << "W 21 St & 6 Ave", "West St & Chambers St", "Broadway & W 58 St",
       "6 Ave & W 33 St", "1 Ave & E 68 St", "Broadway & E 14 St",
       "Broadway & W 25 St", "University Pl & E 14 St", "Broadway & E 21 St",
       "W 31 St & 7 Ave", "E 33 St & 1 Ave", "Cleveland Pl & Spring St",
       "12 Ave & W 40 St", "6 Ave & W 34 St", "West St & Liberty St",
       "11 Ave & W 41 St", "Lafayette St & E 8 St", "Central Park S & 6 Ave",
       "E 40 St & Park Ave", "8 Ave & W 33 St" >>

part2_trip_counts ==
    << 129018, 128456, 127890, 126543, 125678, 124321, 123456, 122890,
       121234, 120567, 119876, 119123, 118456, 117890, 117123, 116456,
       115789, 115123, 114456, 113789 >>

\* load_sample_data of notebooks/nyc_bike_dashboard_part_2.py
nbpart2_stations ==
    << "W 21 St & 6 Ave", "West St & Chambers St", "Broadway & W 58 St",
       "6 Ave & W 33 St", "1 Ave & E 68 St", "Broadway & E 14 St",
       "Broadway & W 25 St", "University Pl & E 14 St", "Broadway & E 21 St",
       "W 31 St & 7 Ave", "E 33 St & 1 Ave", "Cleveland Pl & Spring St",
       "12 Ave & W 40 St", "6 Ave & W 34 St", "West St & Liberty St",
       "11 Ave & W 41 St", "Lafayette St & E 8 St", "Central Park S & 6 Ave",
       "E 40 St & Park Ave", "8 Ave & W 33 St" >>

nbpart2_trip_counts ==
    << 129018, 128456, 127890, 126543, 125678, 124321, 123456, 122890,
       121234, 120567, 119876, 119123, 118456, 117890, 117123, 116456,
       115789, 115123, 114456, 113789 >>

\* a frame whose rows take the station names in list order and the counts
\* in reverse order
StationRowsCountsReversed(names, counts) ==
    [i \in 1..Len(names) |-> StationRow(names[i], counts[Len(counts) + 1 - i])]

\* pd.DataFrame({'start_station_name': stations, 'trip_count': trip_counts})
StationRows(names, counts) ==
    [i \in 1..Len(names) |-> StationRow(names[i], counts[i])]

\* the rows of the station table variant v builds
StationTable(v) ==
    IF v = NotebooksDashboard THEN Rows(SampleStations)
    ELSE IF v = PagesDashboard THEN StationRows(pages_stations, pages_trip_counts)
    ELSE IF v = PopularStations THEN StationRows(popular_stations, popular_trip_counts)
    ELSE IF v = PagesPart2 THEN StationRows(part2_stations, part2_trip_counts)
    ELSE IF v = NotebooksPart2 THEN StationRows(nbpart2_stations, nbpart2_trip_counts)
    ELSE << >>

---------------------------------------------------------------------------
(* The daily tables of the variants.  A normal draw enters as z, a whole   *)
(* number of standard deviations.                                          *)

\* pd.date_range(start, end, freq='D') that leaves the end date out
date_range_open(s, e) == [i \in 1..(e - s) |-> s + i - 1]

\* pd.date_range(start, end, freq='D'): every day from start to end
date_range(s, e) == [i \in 1..(e - s + 1) |-> s + i - 1]

\* date.weekday(): Monday is 0; 2021-01-01 was a Friday
Weekday(d) == (d + 4) % 7

\* max(a, b), np.maximum(a, b)
Max2(a, b) == IF a >= b THEN a ELSE b

\* create_sample_data of pages/nyc_bike_dashboard.py
pages_sample ==
    [start |-> 29, end |-> 729,
     base_trips |-> 80000, amplitude |-> 20000, trips_sigma |-> 5000,
     monthly_temps |-> << 32, 35, 42, 53, 63, 72, 77, 76, 68, 57, 48, 38 >>,
     temp_sigma |-> 5]

\* a daily_trips whose sine term is shifted to peak in summer
pages_daily_trips_summer_peak(d, z) ==
    pages_sample.base_trips
        + SinMilli(DayOfYear(d + DaysInYear - 91)) * (pages_sample.amplitude \div 1000)
        + pages_sample.trips_sigma * z

pages_daily_trips(d, z) ==
    pages_sample.base_trips
        + SinMilli(DayOfYear(d)) * (pages_sample.amplitude \div 1000)
        + pages_sample.trips_sigma * z

pages_temperature(d, z) ==
    pages_sample.monthly_temps[MonthOf(d)] + pages_sample.temp_sigma * z

\* load_weather_data of pages/2_Weather_Impact.py
weather ==
    [start |-> 365, end |-> 729,
     monthly_temps |-> << 32, 35, 42, 53, 63, 72, 77, 76, 68, 57, 48, 38 >>,
     temp_sigma |-> 5, trips_sigma |-> 3000, minimum |-> 15000]

weather_temperature(d, z) ==
    weather.monthly_temps[MonthOf(d)] + weather.temp_sigma * z

weather_daily_trips(d, zt, zf) ==
    LET bt == 40000 + (weather_temperature(d, zf) - 32) * 800
    IN  Max2(bt + weather.trips_sigma * zt, weather.minimum)

\* the if/elif chain of load_dashboard_data of
\* pages/nyc_bike_dashboard_part_2.py
part2_season(month) ==
    IF month \in {12, 1, 2}
    THEN [season |-> "Winter", base_temp |-> 35, base_trips |-> 45000]
    ELSE IF month \in {3, 4, 5}
    THEN [season |-> "Spring", base_temp |-> 55, base_trips |-> 75000]
    ELSE IF month \in {6, 7, 8}
    THEN [season |-> "Summer", base_temp |-> 75, base_trips |-> 95000]
    ELSE [season |-> "Fall", base_temp |-> 60, base_trips |-> 80000]

\* the if/elif chain of load_sample_data of
\* notebooks/nyc_bike_dashboard_part_2.py
nbpart2_season(month, zt, zf) ==
    IF month \in {12, 1, 2}
    THEN [season |-> "Winter", base_temp |-> 35 + 8 * zf, base_trips |-> 45000 + 3000 * zt]
    ELSE IF month \in {3, 4, 5}
    THEN [season |-> "Spring", base_temp |-> 55 + 10 * zf, base_trips |-> 75000 + 4000 * zt]
    ELSE IF month \in {6, 7, 8}
    THEN [season |-> "Summer", base_temp |-> 75 + 7 * zf, base_trips |-> 95000 + 5000 * zt]
    ELSE [season |-> "Fall", base_temp |-> 60 + 9 * zf, base_trips |-> 80000 + 4000 * zt]

\* if date.weekday() >= 5: base_trips *= 1.2; then max(20000, base_trips)
nbpart2_daily_trips(d, zt, zf) ==
    LET bt == nbpart2_season(MonthOf(d), zt, zf).base_trips
        wk == IF Weekday(d) >= 5 THEN (bt * 6) \div 5 ELSE bt
    IN  Max2(20000, wk)

nbpart2_temperature(d, zf) ==
    Max2(10, nbpart2_season(MonthOf(d), 0, zf).base_temp)

\* first and last date of the range variant v passes to pd.date_range
GenStartDate(v) ==
    IF v = NotebooksDashboard THEN SampleStart
    ELSE IF v = PagesDashboard THEN pages_sample.start
    ELSE IF v = WeatherImpact THEN weather.start
    ELSE 0

GenEndDate(v) ==
    IF v = NotebooksDashboard THEN SampleEnd
    ELSE IF v = PagesDashboard THEN pages_sample.end
    ELSE IF v = WeatherImpact THEN weather.end
    ELSE 729

\* the dates column of variant v; a variant without a daily table has none
GenDates(v) ==
    IF v \in DailyVariants THEN date_range(GenStartDate(v), GenEndDate(v)) ELSE << >>

\* daily_trips / temperature / season of variant v on date d, with trip
\* noise zt and temperature noise zf
GenDailyTrips(v, d, zt, zf) ==
    IF v = NotebooksDashboard THEN sample_daily_trips(d, zt)
    ELSE IF v = PagesDashboard THEN pages_daily_trips(d, zt)
    ELSE IF v = WeatherImpact THEN weather_daily_trips(d, zt, zf)
    ELSE IF v = PagesPart2 THEN part2_season(MonthOf(d)).base_trips
    ELSE nbpart2_daily_trips(d, zt, zf)

GenTemperature(v, d, zf) ==
    IF v = NotebooksDashboard THEN sample_temperature(d, zf)
    ELSE IF v = PagesDashboard THEN pages_temperature(d, zf)
    ELSE IF v = WeatherImpact THEN weather_temperature(d, zf)
    ELSE IF v = PagesPart2 THEN part2_season(MonthOf(d)).base_temp
    ELSE nbpart2_temperature(d, zf)

GenSeason(v, d) ==
    IF v = PagesPart2 THEN part2_season(MonthOf(d)).season
    ELSE IF v = NotebooksPart2 THEN nbpart2_season(MonthOf(d), 0, 0).season
    ELSE ""

\* positions, from the generator state at the call, of the draws that go
\* into row i of len rows: the dashboards draw all trip noise and then all
\* temperature noise, the weather page the other way round, the notebooks
\* part 2 loop draws temperature then trips in every iteration
TripNoisePos(v, i, len) ==
    IF v \in {NotebooksDashboard, PagesDashboard} THEN i - 1
    ELSE IF v = WeatherImpact THEN len + i - 1
    ELSE 2 * (i - 1) + 1

TempNoisePos(v, i, len) ==
    IF v \in {NotebooksDashboard, PagesDashboard} THEN len + i - 1
    ELSE IF v = WeatherImpact THEN i - 1
    ELSE 2 * (i - 1)

\* number of normal draws variant v makes for len rows
GenDraws(v, len) == IF v \in {PagesPart2, PopularStations} THEN 0 ELSE 2 * len

GenRow(d, t, f, s, zt, zf) ==
    [date |-> d, daily_trips |-> t, temperature |-> f, season |-> s,
     trip_z |-> zt, temp_z |-> zf]

NoRow == GenRow(0 - 1, 0, 0, "", 0, 0)

\* row i of the daily table variant v builds with the generator in state g
\* at the call
GenRowAt(v, g, i) ==
    LET dates == GenDates(v)
        d  == dates[i]
        zt == IF v = PagesPart2 THEN 0 ELSE StdNormal(g, TripNoisePos(v, i, Len(dates)))
        zf == IF v = PagesPart2 THEN 0 ELSE StdNormal(g, TempNoisePos(v, i, Len(dates)))
    IN  GenRow(d, GenDailyTrips(v, d, zt, zf), GenTemperature(v, d, zf),
               GenSeason(v, d), zt, zf)

NoGen ==
    [variant |-> "", g |-> 0, top |-> << >>, dates |-> 0, n |-> 0,
     row |-> NoRow, done |-> FALSE]

---------------------------------------------------------------------------
(* The map block of the page: the first existing candidate is opened for   *)
(* reading and its text embedded; the whole block sits in a try/except.    *)

map_paths ==
    << "nyc_bike_trips_aggregated.html",
       "../maps/nyc_bike_trips_aggregated.html",
       "./maps/nyc_bike_trips_aggregated.html" >>

MapPaths == Range(map_paths)

(* A map path is absent, or exists and cannot be read as UTF-8 text (a     *)
(* directory, a binary file), or holds text, possibly none.                *)
MapAbsent == [kind |-> "absent", html |-> ""]
MapUnreadable == [kind |-> "unreadable", html |-> ""]
MapHtml(h) == [kind |-> "html", html |-> h]

MapContents == { MapUnreadable, MapHtml(""), MapHtml("<map A>"), MapHtml("<map B>") }

MapOutcome(status, probed, read, html, notices) ==
    [status |-> status, probed |-> probed, read |-> read, html |-> html,
     notices |-> notices]

NoMap == MapOutcome("none", << >>, << >>, "", << >>)

\* the map block without its try/except: an exception of open() or read()
\* leaves the block
MapBlockUnguarded(mf) ==
    LET s  == ProbeLoop(mf, map_paths, 1)
        pr == PathsAt(map_paths, s.probed)
        mp == IF s.hit = 0 THEN "" ELSE map_paths[s.hit]
    IN  IF s.hit = 0
        THEN MapOutcome("not_found", pr, << >>, "", << >>)
        ELSE IF mf[mp].kind = "unreadable"
        THEN MapOutcome("raised", pr, << mp >>, "", << >>)
        ELSE IF mf[mp].html = ""
        THEN MapOutcome("not_found", pr, << mp >>, "",
                        << Notice("success", "Loaded map from", mp) >>)
        ELSE MapOutcome("embedded", pr, << mp >>, mf[mp].html,
                        << Notice("success", "Loaded map from", mp) >>)

\* try: for map_path in map_paths: if os.path.exists(map_path): read; break
\*      if html_content: embed it; else: say where the file is expected
\* except Exception: say that the map is unavailable
MapBlock(mf) ==
    LET s  == ProbeLoop(mf, map_paths, 1)
        pr == PathsAt(map_paths, s.probed)
        mp == IF s.hit = 0 THEN "" ELSE map_paths[s.hit]
    IN  IF s.hit = 0
        THEN MapOutcome("not_found", pr, << >>, "", << >>)
        ELSE IF mf[mp].kind = "unreadable"
        THEN MapOutcome("unavailable", pr, << mp >>, "", << >>)
        ELSE IF mf[mp].html = ""
        THEN MapOutcome("not_found", pr, << mp >>, "",
                        << Notice("success", "Loaded map from", mp) >>)
        ELSE MapOutcome("embedded", pr, << mp >>, mf[mp].html,
                        << Notice("success", "Loaded map from", mp) >>)

\* the script run seen from after the map block: o is what the load and the
\* sections after the map give, m what the map block did.  An exception
\* that leaves the map block ends the run before those sections
AfterMap(o, m) ==
    IF m.status = "raised"
    THEN [o EXCEPT !.status = "map_raised", !.exc = "OSError", !.busiest = 0]
    ELSE o

---------------------------------------------------------------------------
(* The part 2 dashboards: the sidebar's page selection and season filter,  *)
(* the Weather Impact page and the Most Popular Stations page.  The        *)
(* notebooks variant writes every page name with a leading space, in the   *)
(* options and in every comparison alike; pages are named here as the      *)
(* pages variant names them.                                               *)

Part2Pages ==
    << "Introduction", "Weather Impact Analysis", "Most Popular Stations",
       "Interactive Map Analysis", "Recommendations" >>

\* the pages on which the sidebar shows the season multiselect
FilterPages == {"Most Popular Stations", "Weather Impact Analysis"}

seasons == << "Winter", "Spring", "Summer", "Fall" >>

\* daily_data as the cached load returns it: every row of the variant's
\* generator, in date order, built with the generator in state g
Part2Daily(v, g) == [i \in 1..Len(GenDates(v)) |-> GenRowAt(v, g, i)]

\* df[df['season'].isin(sel)]
isin(rows, sel) == SelectSeq(rows, LAMBDA r : r.season \in sel)

filtered_daily_data_unfiltered(daily, page, has_filter, selected_seasons) ==
    daily

\* filtered_daily_data of the script: has_filter tells whether the sidebar
\* has defined selected_seasons in this run
filtered_daily_data(daily, page, has_filter, selected_seasons) ==
    IF page \in FilterPages /\ has_filter
    THEN IF selected_seasons # {}
         THEN isin(daily, selected_seasons)
         ELSE daily
    ELSE daily

\* display_data of the Weather Impact page
display_data(v, daily, page, has_filter, selected_seasons) ==
    LET filtered == filtered_daily_data(daily, page, has_filter, selected_seasons)
    IN  IF v = PagesPart2
        THEN IF has_filter /\ selected_seasons # {} THEN filtered ELSE daily
        ELSE filtered

\* a float of the page: a whole part and a fraction num/den of it, or NaN.
\* Series.mean() of no rows is NaN and NaN stays NaN in arithmetic; no
\* exception is raised
NaN == [defined |-> FALSE, whole |-> 0, num |-> 0, den |-> 1]
Number(w, n, d) == [defined |-> TRUE, whole |-> w, num |-> n, den |-> d]

\* the sum of daily_trips over rows lo..hi, by halves
RECURSIVE SumTripsIn(_, _, _)
SumTripsIn(rows, lo, hi) ==
    IF lo > hi THEN 0
    ELSE IF lo = hi THEN rows[lo].daily_trips
    ELSE LET mid == (lo + hi) \div 2
         IN  SumTripsIn(rows, lo, mid) + SumTripsIn(rows, mid + 1, hi)

\* rows['daily_trips'].sum()
SumTrips(rows) == SumTripsIn(rows, 1, Len(rows))

\* rows['daily_trips'].mean()
MeanDailyTrips(rows) ==
    IF Len(rows) = 0 THEN NaN
    ELSE Number(SumTrips(rows) \div Len(rows), SumTrips(rows) % Len(rows), Len(rows))

\* f"{x:,.0f}": the nearest whole number, or the text nan
Format0(x) ==
    IF x.defined
    THEN [defined |-> TRUE, value |-> x.whole + ((2 * x.num + x.den) \div (2 * x.den))]
    ELSE [defined |-> FALSE, value |-> 0]

\* the difference of the warm-season and the cold-season mean
seasonal_diff(display) ==
    LET warm_season == isin(display, {"Spring", "Summer"})
        cold_season == isin(display, {"Winter", "Fall"})
        a == MeanDailyTrips(warm_season)
        b == MeanDailyTrips(cold_season)
    IN  IF a.defined /\ b.defined
        THEN Number(a.whole - b.whole, a.num * b.den - b.num * a.den, a.den * b.den)
        ELSE NaN

\* the warm-season highlight bands of the chart
warm_months == << 5, 6, 7, 8, 9, 10 >>

\* the first day of a month, as a date of the model
MonthStart(year, month) == (year - 2021) * DaysInYear + CumDays[month]

\* display_data['date'].min() and .max()
MinDate(rows) ==
    LET ds == { rows[i].date : i \in 1..Len(rows) }
    IN  CHOOSE d \in ds : \A e \in ds : d <= e

MaxDate(rows) ==
    LET ds == { rows[i].date : i \in 1..Len(rows) }
    IN  CHOOSE d \in ds : \A e \in ds : d >= e

\* the bands add_vrect draws, each named by its year and month
Bands(display) ==
    LET lo == MinDate(display)
        hi == MaxDate(display)
    IN  { b \in {2021, 2022} \X Range(warm_months) :
             /\ MonthStart(b[1], b[2]) >= lo
             /\ MonthStart(b[1], b[2] + 1) <= hi }

\* what the Weather Impact page shows of display_data
NoWeatherPage ==
    [shown |-> FALSE, rows |-> 0, first |-> 0 - 1, last |-> 0 - 1,
     trips |-> 0, has_diff |-> FALSE, seasonal_diff |-> Format0(NaN), bands |-> {}]

WeatherPage(v, display) ==
    [shown |-> TRUE, rows |-> Len(display),
     first |-> display[1].date, last |-> display[Len(display)].date,
     trips |-> SumTrips(display),
     has_diff |-> v = PagesPart2,
     seasonal_diff |-> Format0(IF v = PagesPart2 THEN seasonal_diff(display) ELSE NaN),
     bands |-> IF v = PagesPart2 THEN Bands(display) ELSE {}]

\* what the Most Popular Stations page shows
RECURSIVE SumCountsTo(_, _)
SumCountsTo(rows, n) ==
    IF n = 0 THEN 0 ELSE SumCountsTo(rows, n - 1) + rows[n].trip_count

NoStationPage ==
    [shown |-> FALSE, filter_note |-> "", table |-> << >>, total_rides |-> 0,
     avg_station |-> 0, top_station |-> StationRow("", 0)]

StationKpis(note, station_data) ==
    [shown |-> TRUE, filter_note |-> note, table |-> station_data,
     total_rides |-> SumCountsTo(station_data, Len(station_data)),
     avg_station |-> Format0(Number(
                        SumCountsTo(station_data, Len(station_data)) \div Len(station_data),
                        SumCountsTo(station_data, Len(station_data)) % Len(station_data),
                        Len(station_data))).value,
     top_station |-> station_data[1]]

StationPageBySeason(top_stations, has_filter, selected_seasons) ==
    IF has_filter /\ Cardinality(selected_seasons) < 4
    THEN StationKpis("seasons selected",
                     SubSeq(top_stations, 1, 5 * Max2(1, Cardinality(selected_seasons))))
    ELSE StationKpis("annual", top_stations)

StationPage(top_stations, has_filter, selected_seasons) ==
    IF has_filter /\ Cardinality(selected_seasons) < 4
    THEN StationKpis("seasons selected", top_stations)
    ELSE StationKpis("annual", top_stations)

\* one run of the script: the sidebar, the cached load, the filter, and the
\* page that is selected
NoView ==
    [variant |-> "", g |-> 0, page |-> "", has_filter |-> FALSE,
     selected_seasons |-> {}, weather |-> NoWeatherPage,
     station |-> NoStationPage]

Part2Script(v, g, page, sel) ==
    LET has_filter == page \in FilterPages
        daily == Part2Daily(v, g)
    IN  [variant |-> v, g |-> g, page |-> page, has_filter |-> has_filter,
         selected_seasons |-> IF has_filter THEN sel ELSE {},
         weather |-> IF page = "Weather Impact Analysis"
                     THEN WeatherPage(v, display_data(v, daily, page, has_filter, sel))
                     ELSE NoWeatherPage,
         station |-> IF page = "Most Popular Stations"
                     THEN StationPage(StationTable(v), has_filter, sel)
                     ELSE NoStationPage]

---------------------------------------------------------------------------
(* Actions.  out describes the latest page load for as long as the file    *)
(* system is the one that load saw: a change of the file system clears it. *)

NoSnapshot == [set |-> FALSE, fs |-> [p \in Paths |-> Absent], rng |-> 0]

Init ==
    /\ fs = [p \in Paths |-> Absent]
    /\ fsOps = 0
    /\ cache = EmptyCache
    /\ rng \in Seeds
    /\ out = NoOutcome
    /\ firstLoad = NoSnapshot
    /\ prevSample = NoneDF
    /\ trips = << >>
    /\ agg = NoAgg
    /\ gen = NoGen
    /\ mapFs = [p \in MapPaths |-> MapAbsent]
    /\ mapView = NoMap
    /\ view = NoView

\* a file is created or replaced at a candidate path
WriteFile ==
    /\ fsOps < MaxFsOps
    /\ \E p \in Paths : \E c \in Contents(p) :
          /\ fs[p] # c
          /\ fs' = [fs EXCEPT ![p] = c]
    /\ fsOps' = fsOps + 1
    /\ out' = NoOutcome
    /\ mapView' = NoMap
    /\ UNCHANGED <<cache, rng, firstLoad, prevSample, trips, agg, gen, mapFs, view>>

\* a file is removed from a candidate path
DeleteFile ==
    /\ fsOps < MaxFsOps
    /\ \E p \in Paths :
          /\ Exists(fs, p)
          /\ fs' = [fs EXCEPT ![p] = Absent]
    /\ fsOps' = fsOps + 1
    /\ out' = NoOutcome
    /\ mapView' = NoMap
    /\ UNCHANGED <<cache, rng, firstLoad, prevSample, trips, agg, gen, mapFs, view>>

\* a page load that saves the sample stations it generated as a CSV
PageLoadSavingSample ==
    IF CacheLookup(cache)
    THEN /\ out' = AfterMap(ScriptRun(cache.value, TRUE), MapBlock(mapFs))
         /\ mapView' = MapBlock(mapFs)
         /\ UNCHANGED <<fs, fsOps, cache, rng, firstLoad, prevSample, trips, agg, gen, mapFs, view>>
    ELSE LET r == load_dashboard_data(fs, rng)
         IN  /\ cache' = CacheStore(cache, r)
             /\ rng' = r.rng
             /\ out' = IF r.status = "returned"
                       THEN AfterMap(ScriptRun(r, FALSE), MapBlock(mapFs))
                       ELSE ScriptRun(r, FALSE)
             /\ firstLoad' = IF r.status = "returned" /\ ~firstLoad.set
                             THEN [set |-> TRUE, fs |-> fs, rng |-> rng]
                             ELSE firstLoad
             /\ mapView' = IF r.status = "returned" THEN MapBlock(mapFs) ELSE NoMap
             /\ fs' = IF r.sampled
                      THEN [fs EXCEPT ![possible_station_files[2]] =
                                         Csv("", Rows(r.top_stations))]
                      ELSE fs
             /\ UNCHANGED <<fsOps, prevSample, trips, agg, gen, mapFs, view>>

\* a page load: the script runs from top to bottom.  The map block comes
\* after the load and the charts and before the KPIs
PageLoad ==
    IF CacheLookup(cache)
    THEN /\ out' = AfterMap(ScriptRun(cache.value, TRUE), MapBlock(mapFs))
         /\ mapView' = MapBlock(mapFs)
         /\ UNCHANGED <<fs, fsOps, cache, rng, firstLoad, prevSample, trips, agg, gen, mapFs, view>>
    ELSE LET r == load_dashboard_data(fs, rng)
         IN  /\ cache' = CacheStore(cache, r)
             /\ rng' = r.rng
             /\ out' = IF r.status = "returned"
                       THEN AfterMap(ScriptRun(r, FALSE), MapBlock(mapFs))
                       ELSE ScriptRun(r, FALSE)
             /\ firstLoad' = IF r.status = "returned" /\ ~firstLoad.set
                             THEN [set |-> TRUE, fs |-> fs, rng |-> rng]
                             ELSE firstLoad
             /\ mapView' = IF r.status = "returned" THEN MapBlock(mapFs) ELSE NoMap
             /\ UNCHANGED <<fs, fsOps, prevSample, trips, agg, gen, mapFs, view>>

\* the dashboard process is stopped and started again: the cache is empty
\* and numpy seeds its generator afresh
Restart ==
    /\ cache.filled \/ out # NoOutcome
    /\ cache' = EmptyCache
    /\ rng' \in Seeds
    /\ out' = NoOutcome
    /\ firstLoad' = NoSnapshot
    /\ prevSample' = IF cache.filled /\ cache.value.sampled
                      THEN cache.value.daily_data ELSE prevSample
    /\ mapView' = NoMap
    /\ UNCHANGED <<fs, fsOps, trips, agg, gen, mapFs, view>>

Next == WriteFile \/ DeleteFile \/ PageLoad \/ Restart

Spec == Init /\ [][Next]_vars

---------------------------------------------------------------------------
(* The page with map files coming and going.  The CSV files are either     *)
(* all absent or in place from the start.                                  *)

RealDataFs ==
    [p \in Paths |->
        IF p = possible_station_files[2]
        THEN Csv("", << StationRow(stations[1], 5), StationRow(stations[2], 3) >>)
        ELSE IF p = possible_daily_files[2]
        THEN Csv("ok", << DailyRow(0, 4, 30), DailyRow(1, 6, 40) >>)
        ELSE Absent]

InitMap ==
    /\ fs \in { [p \in Paths |-> Absent], RealDataFs }
    /\ fsOps = 0
    /\ cache = EmptyCache
    /\ rng \in Seeds
    /\ out = NoOutcome
    /\ firstLoad = NoSnapshot
    /\ prevSample = NoneDF
    /\ trips = << >>
    /\ agg = NoAgg
    /\ gen = NoGen
    /\ mapFs = [p \in MapPaths |-> MapAbsent]
    /\ mapView = NoMap
    /\ view = NoView

\* a map file is created or replaced at a candidate path
WriteMap ==
    /\ fsOps < MaxFsOps
    /\ \E p \in MapPaths : \E c \in MapContents :
          /\ mapFs[p] # c
          /\ mapFs' = [mapFs EXCEPT ![p] = c]
    /\ fsOps' = fsOps + 1
    /\ out' = NoOutcome
    /\ mapView' = NoMap
    /\ UNCHANGED <<fs, cache, rng, firstLoad, prevSample, trips, agg, gen, view>>

\* a map file is removed from a candidate path
DeleteMap ==
    /\ fsOps < MaxFsOps
    /\ \E p \in MapPaths :
          /\ Exists(mapFs, p)
          /\ mapFs' = [mapFs EXCEPT ![p] = MapAbsent]
    /\ fsOps' = fsOps + 1
    /\ out' = NoOutcome
    /\ mapView' = NoMap
    /\ UNCHANGED <<fs, cache, rng, firstLoad, prevSample, trips, agg, gen, view>>

NextMap == WriteMap \/ DeleteMap \/ PageLoad \/ Restart

SpecMap == InitMap /\ [][NextMap]_vars

---------------------------------------------------------------------------
(* The aggregator on every trip table of up to MaxTrips rows *)

InitAgg ==
    /\ fs = [p \in Paths |-> Absent]
    /\ fsOps = 0
    /\ cache = EmptyCache
    /\ rng = 0
    /\ out = NoOutcome
    /\ firstLoad = NoSnapshot
    /\ prevSample = NoneDF
    /\ trips \in TripTables
    /\ agg = NoAgg
    /\ gen = NoGen
    /\ mapFs = [p \in MapPaths |-> MapAbsent]
    /\ mapView = NoMap
    /\ view = NoView

ComputeTopStations ==
    /\ \E n \in 0..MaxN :
          agg' = [agg EXCEPT !.top_done = TRUE, !.n = n,
                             !.top = computeTopStations(trips, n),
                             !.stations = StationAggregates(trips)]
    /\ UNCHANGED <<dashVars, trips, gen, view>>

ComputeDailySeries ==
    /\ agg' = [agg EXCEPT !.daily_done = TRUE, !.daily = computeDailySeries(trips)]
    /\ UNCHANGED <<dashVars, trips, gen, view>>

NextAgg == ComputeTopStations \/ ComputeDailySeries

SpecAgg == InitAgg /\ [][NextAgg]_vars

---------------------------------------------------------------------------
(* A run of one variant's generator: the station table and the date range, *)
(* then the rows in date order, then the frame.                            *)

InitGen ==
    /\ fs = [p \in Paths |-> Absent]
    /\ fsOps = 0
    /\ cache = EmptyCache
    /\ rng \in Seeds
    /\ out = NoOutcome
    /\ firstLoad = NoSnapshot
    /\ prevSample = NoneDF
    /\ trips = << >>
    /\ agg = NoAgg
    /\ gen = NoGen
    /\ mapFs = [p \in MapPaths |-> MapAbsent]
    /\ mapView = NoMap
    /\ view = NoView

\* the generator of a variant is called: it builds its station table and
\* its date range
GenStart ==
    /\ gen = NoGen
    /\ \E v \in GenVariants :
          gen' = [NoGen EXCEPT !.variant = v, !.g = rng,
                               !.top = StationTable(v),
                               !.dates = Len(GenDates(v))]
    /\ UNCHANGED <<dashVars, aggVars, view>>

\* the values of the next date are computed and appended to the columns
GenAppend ==
    /\ gen.variant # ""
    /\ ~gen.done
    /\ gen.n < gen.dates
    /\ gen' = [gen EXCEPT !.n = gen.n + 1,
                          !.row = GenRowAt(gen.variant, gen.g, gen.n + 1)]
    /\ UNCHANGED <<dashVars, aggVars, view>>

\* every date has its values: the frame is built and returned
GenReturn ==
    /\ gen.variant # ""
    /\ ~gen.done
    /\ gen.n = gen.dates
    /\ gen' = [gen EXCEPT !.done = TRUE]
    /\ rng' = Advance(gen.g, GenDraws(gen.variant, gen.dates))
    /\ UNCHANGED <<fs, fsOps, cache, out, firstLoad, prevSample, mapFs, mapView, aggVars, view>>

NextGen == GenStart \/ GenAppend \/ GenReturn

SpecGen == InitGen /\ [][NextGen]_vars

---------------------------------------------------------------------------
(* A session on one part 2 dashboard: the first script run, then a rerun   *)
(* for every change of the page selectbox or of the season multiselect.    *)
(* The load is cached, so every rerun sees the tables of the first run.    *)

InitPart2 ==
    /\ fs = [p \in Paths |-> Absent]
    /\ fsOps = 0
    /\ cache = EmptyCache
    /\ rng \in Seeds
    /\ out = NoOutcome
    /\ firstLoad = NoSnapshot
    /\ prevSample = NoneDF
    /\ trips = << >>
    /\ agg = NoAgg
    /\ gen = NoGen
    /\ mapFs = [p \in MapPaths |-> MapAbsent]
    /\ mapView = NoMap
    /\ view = NoView

\* the dashboard is opened: the selectbox is at its first option and the
\* load runs
Part2Open ==
    /\ view = NoView
    /\ \E v \in {PagesPart2, NotebooksPart2} :
          /\ view' = Part2Script(v, rng, Part2Pages[1], Range(seasons))
          /\ rng' = Advance(rng, GenDraws(v, Len(GenDates(v))))
    /\ UNCHANGED <<fs, fsOps, cache, out, firstLoad, prevSample, mapFs, mapView, aggVars, gen>>

\* another page is chosen in the sidebar; a multiselect that appears with
\* the page starts at its default
Part2SelectPage ==
    /\ view.variant # ""
    /\ \E p \in Range(Part2Pages) \ {view.page} :
          view' = Part2Script(view.variant, view.g, p, Range(seasons))
    /\ UNCHANGED <<dashVars, aggVars, gen>>

\* the season multiselect is changed: one option is added or removed, or
\* the selection is cleared; each change reruns the script
Part2SelectSeasons ==
    /\ view.has_filter
    /\ \E sel \in ({ view.selected_seasons \cup {x} : x \in Range(seasons) }
                    \cup { view.selected_seasons \ {x} : x \in view.selected_seasons }
                    \cup { {} }) \ {view.selected_seasons} :
          view' = Part2Script(view.variant, view.g, view.page, sel)
    /\ UNCHANGED <<dashVars, aggVars, gen>>

NextPart2 == Part2Open \/ Part2SelectPage \/ Part2SelectSeasons

SpecPart2 == InitPart2 /\ [][NextPart2]_vars

---------------------------------------------------------------------------
(* Properties of the loader and the page *)

\* the latest script run executed the body of load_dashboard_data
BodyRan == out.status # "none" /\ ~out.hit

ExistingIdx(files) == { i \in 1..Len(files) : Exists(fs, files[i]) }

Min(S) == CHOOSE x \in S : \A y \in S : x <= y

ProbedOf(files) == SelectSeq(out.run.probed, LAMBDA p : p \in Range(files))
ReadOf(files) == SelectSeq(out.run.read, LAMBDA p : p \in Range(files))

\* what a probe loop over files must have done if it ran
FirstExistingOnly(files) ==
    LET E == ExistingIdx(files)
    IN  IF E = {}
        THEN /\ ProbedOf(files) = files
             /\ ReadOf(files) = << >>
        ELSE /\ ProbedOf(files) = SubSeq(files, 1, Min(E))
             /\ ReadOf(files) = << files[Min(E)] >>

\* C1: in a run of the body of load_dashboard_data, for the station list
\* and for the daily list separately, a loop that ran probed the candidates
\* in list order up to and including the first that exists and read that
\* one alone; it probed every candidate and read none when none exists;
\* and a table that was loaded holds the rows of that first existing file.
C1_FirstExistingCandidateIsRead ==
    BodyRan =>
        /\ FirstExistingOnly(possible_station_files)
        /\ \/ ProbedOf(possible_daily_files) = << >>
           \/ FirstExistingOnly(possible_daily_files)
        /\ out.run.status = "returned" /\ ~out.run.sampled =>
              /\ out.run.top_stations.rows =
                    fs[possible_station_files[Min(ExistingIdx(possible_station_files))]].rows
              /\ out.run.daily_data.rows =
                    fs[possible_daily_files[Min(ExistingIdx(possible_daily_files))]].rows

\* C1 witness: two station candidates exist, the second and the third of
\* the list, and the body read the second
C1_Witness ==
    /\ BodyRan
    /\ ExistingIdx(possible_station_files) = {2, 3}
    /\ ReadOf(possible_station_files) = << possible_station_files[2] >>
    /\ fs[possible_station_files[2]] # fs[possible_station_files[3]]

\* C2: when the body of load_dashboard_data runs and no station candidate
\* and no daily candidate exists, it returns (does not raise) exactly the
\* pair create_sample_data() builds from the generator state of the call,
\* with the 'Using sample data' warning, and the raw-trip aggregator is
\* not involved.
C2_FallbackIsSampleData ==
    (BodyRan /\ \A p \in Paths : ~Exists(fs, p)) =>
        /\ out.run.status = "returned"
        /\ out.status # "load_raised"
        /\ firstLoad.set
        /\ out.run.top_stations = create_sample_data(firstLoad.rng).top_stations
        /\ out.run.daily_data = create_sample_data(firstLoad.rng).daily_data
        /\ rng = create_sample_data(firstLoad.rng).rng
        /\ out.run.notices = << SampleWarning >>
        /\ out.run.read = << >>
        /\ agg = NoAgg

\* C2 witness: the body ran on a file system without any candidate
C2_Witness ==
    /\ BodyRan
    /\ \A p \in Paths : ~Exists(fs, p)
    /\ out.run.sampled
    /\ out.status = "rendered"

\* C3 (as claimed): a candidate file that exists but lacks the 'date'
\* column or holds an unparseable date never makes a load end in an
\* exception.
C3_MalformedNeverRaises ==
    ~(out.status = "load_raised" /\ out.exc \in {"KeyError", "ValueError"})

\* C4 (as claimed): two calls of the synthetic generator return the same
\* daily series (the date range is fixed and the code passes no seed).
C4_GeneratorDeterministic ==
    (cache.filled /\ cache.value.sampled /\ prevSample # NoneDF) =>
        Rows(cache.value.daily_data) = Rows(prevSample)

\* the pair an uncached run of the loader on the current file system would
\* give, drawing the random numbers the cached run drew
UncachedRun ==
    load_dashboard_data(fs, IF out.run.sampled THEN out.run.daily_data.rng ELSE rng)

SamePair(r, u) ==
    /\ u.status = "returned"
    /\ r.top_stations = u.top_stations
    /\ r.daily_data = u.daily_data

\* C5 (as claimed): the pair a page load gets equals what an uncached run
\* of the loader against the current file system would return (where that
\* run returns a pair).
C5_CacheTransparent ==
    (Loaded /\ UncachedRun.status = "returned") => SamePair(out.run, UncachedRun)

\* C5 (amended): the pair a page load gets is the pair the loader returned
\* on the first load of the running process that returned, that is an
\* uncached run against the file system as it was at that load, whatever
\* the file system has become since.
C5_CacheHoldsFirstLoad ==
    Loaded =>
        /\ firstLoad.set
        /\ SamePair(out.run, load_dashboard_data(firstLoad.fs, firstLoad.rng))

\* C5 witness: a page load served from the cache after the file system
\* changed under it
C5_Witness ==
    /\ Loaded
    /\ out.hit
    /\ firstLoad.fs # fs
    /\ ~SamePair(out.run, UncachedRun)

NonIncreasing(rows) ==
    \A i \in 1..(Len(rows) - 1) : rows[i].trip_count >= rows[i + 1].trip_count

\* C6 (as claimed): the station table the page gets after any load has at
\* most 20 rows and is in non-increasing trip_count order.
C6_StationTableTop20Sorted ==
    Loaded =>
        /\ NumRows(out.run.top_stations) <= TopN
        /\ NonIncreasing(Rows(out.run.top_stations))

\* C10 (as claimed): with an empty station table or an empty daily table
\* the page completes without raising.
C10_EmptyTablesRender ==
    (Loaded /\ (NumRows(out.run.top_stations) = 0 \/ NumRows(out.run.daily_data) = 0)) =>
        out.status = "rendered"

---------------------------------------------------------------------------
(* Properties of the aggregator *)

TripsAt(n) == { i \in 1..Len(trips) : trips[i].start_station_name = n }

DistinctStations == { trips[i].start_station_name : i \in 1..Len(trips) }

FirstIdx(n) == Min(TripsAt(n))

\* station a ranks before station b: more trips, or as many and seen first
RanksBefore(a, b) ==
    \/ Cardinality(TripsAt(a)) > Cardinality(TripsAt(b))
    \/ /\ Cardinality(TripsAt(a)) = Cardinality(TripsAt(b))
       /\ FirstIdx(a) < FirstIdx(b)

\* C7: computeTopStations(trips, n) returns min(n, number of distinct
\* stations) pairs (station, count); each count is the number of trips that
\* start at the station; the pairs are in descending order of count, equal
\* counts in order of first appearance; and every station left out ranks
\* behind every station returned (so a tie at the cutoff goes to the
\* station seen first).
C7_TopStations ==
    agg.top_done =>
        LET r == agg.top
            k == Cardinality(DistinctStations)
        IN  /\ Len(r) = IF agg.n < k THEN agg.n ELSE k
            /\ \A i \in 1..Len(r) :
                  /\ r[i].start_station_name \in DistinctStations
                  /\ r[i].trip_count = Cardinality(TripsAt(r[i].start_station_name))
            /\ \A i \in 1..Len(r) : \A j \in 1..Len(r) :
                  i < j => RanksBefore(r[i].start_station_name, r[j].start_station_name)
            /\ \A x \in DistinctStations :
                  (\A i \in 1..Len(r) : r[i].start_station_name # x) =>
                      \A i \in 1..Len(r) : RanksBefore(r[i].start_station_name, x)

\* C7 witness: three stations with one trip each and n = 2: the tie at the
\* cutoff is decided, and the two stations seen first are returned
C7_Witness ==
    /\ agg.top_done
    /\ agg.n = 2
    /\ Len(trips) = 3
    /\ Cardinality(DistinctStations) = 3
    /\ agg.top = << StationRow(trips[1].start_station_name, 1),
                    StationRow(trips[2].start_station_name, 1) >>

ValidIdx == { i \in 1..Len(trips) : trips[i].started_at.ok }

\* C8: the daily series has exactly one row per distinct date of the rows
\* with a valid timestamp, in ascending date order, each with at least one
\* trip: no date is added and none is repeated.
C8_DailySeriesDates ==
    agg.daily_done =>
        LET r == agg.daily
        IN  /\ { r[k].date : k \in 1..Len(r) } = { trips[i].started_at.date : i \in ValidIdx }
            /\ \A k \in 1..(Len(r) - 1) : r[k].date < r[k + 1].date
            /\ \A k \in 1..Len(r) :
                  /\ r[k].daily_trips >= 1
                  /\ r[k].daily_trips =
                        Cardinality({ i \in ValidIdx : trips[i].started_at.date = r[k].date })

\* C8 witness: the later date comes first in the input, a row has a
\* malformed timestamp, and the series has the two dates in ascending order
C8_Witness ==
    /\ agg.daily_done
    /\ Len(trips) = 3
    /\ ValidIdx = {1, 3}
    /\ trips[1].started_at.date > trips[3].started_at.date
    /\ Len(agg.daily) = 2
    /\ agg.daily[1].date = trips[3].started_at.date

RECURSIVE SumTripCount(_)
SumTripCount(rows) ==
    IF rows = << >> THEN 0 ELSE Head(rows).trip_count + SumTripCount(Tail(rows))

RECURSIVE SumDailyTrips(_)
SumDailyTrips(rows) ==
    IF rows = << >> THEN 0 ELSE Head(rows).daily_trips + SumDailyTrips(Tail(rows))

---------------------------------------------------------------------------
(* Properties of the synthetic generators *)

StrictlyDecreasing(rows) ==
    \A i \in 1..(Len(rows) - 1) : rows[i].trip_count > rows[i + 1].trip_count

DistinctNames(rows) ==
    \A i, j \in 1..Len(rows) :
        i # j => rows[i].start_station_name # rows[j].start_station_name

\* C11: the synthetic station table is the same fixed table in every variant
\* that builds one: it has exactly 20 rows, the station names are pairwise
\* distinct, and trip_count is strictly decreasing from the first row to
\* the last.
C11_StationTableFixed ==
    gen.variant \in StationVariants =>
        /\ Len(gen.top) = 20
        /\ DistinctNames(gen.top)
        /\ StrictlyDecreasing(gen.top)
        /\ \A v \in StationVariants : StationTable(v) = gen.top

C11_Witness ==
    /\ gen.variant = PopularStations
    /\ gen.done
    /\ Len(gen.top) = 20


\* C12 (as claimed): every daily_trips value a synthetic generator produces
\* is at least a fixed positive minimum, on every date of its range and for
\* every value the noise can take: it is never zero or negative.
C12_DailyTripsFloored ==
    (gen.variant \in DailyVariants /\ gen.n >= 1) =>
        \A zt, zf \in NoiseZ :
            GenDailyTrips(gen.variant, gen.row.date, zt, zf) > 0


\* C13 (as claimed): in create_sample_data the noise-free trip volume is
\* higher in the warm months: for every date d1 in June..August and every
\* date d2 in December..February of the generated range,
\* base_trips + seasonal_variation at d1 exceeds that at d2.
C13_WarmMonthsHigher ==
    ( /\ gen.variant \in {PagesDashboard, NotebooksDashboard}
      /\ gen.n >= 1
      /\ MonthOf(gen.row.date) \in {6, 7, 8} ) =>
        \A i \in 1..gen.dates :
            LET d2 == GenDates(gen.variant)[i]
            IN  MonthOf(d2) \in {12, 1, 2} =>
                    GenDailyTrips(gen.variant, gen.row.date, 0, 0)
                        > GenDailyTrips(gen.variant, d2, 0, 0)


\* the noise-free temperature of each month, January first: the monthly_temps
\* table of create_sample_data and load_weather_data, the season values of
\* the part 2 pages generator
MonthTable(v) ==
    IF v = PagesPart2
    THEN << 35, 35, 55, 55, 55, 75, 75, 75, 60, 60, 60, 35 >>
    ELSE << 32, 35, 42, 53, 63, 72, 77, 76, 68, 57, 48, 38 >>

\* standard deviation of the temperature noise
TempSigma(v) == IF v = PagesPart2 THEN 0 ELSE 5

C15_OneRowPerDate ==
    gen.variant \in DailyVariants =>
        /\ gen.n >= 1 => gen.row.date = GenStartDate(gen.variant) + gen.n - 1
        /\ gen.n <= gen.dates
        /\ gen.done =>
              /\ gen.n = GenEndDate(gen.variant) - GenStartDate(gen.variant) + 1
              /\ gen.row.date = GenEndDate(gen.variant)
              /\ gen.n = gen.dates

C15_Witness ==
    /\ gen.variant = PagesPart2
    /\ gen.done
    /\ gen.n = 730
    /\ gen.row.date = 729


\* variants v and w cover the same date range
SameRange(v, w) ==
    /\ GenStartDate(v) = GenStartDate(w)
    /\ GenEndDate(v) = GenEndDate(w)

\* C16 (as claimed): the variants differ only in fallback paths, styling and
\* layout: every variant's synthetic daily generator covers the same date
\* range and uses the same noise-free base values for daily_trips and
\* temperature on each date.
C16_VariantsSameGenerator ==
    (gen.variant \in DailyVariants /\ gen.n >= 1) =>
        \A v \in DailyVariants :
            /\ SameRange(v, gen.variant)
            /\ GenDailyTrips(v, gen.row.date, 0, 0)
                  = GenDailyTrips(gen.variant, gen.row.date, 0, 0)
            /\ GenTemperature(v, gen.row.date, 0)
                  = GenTemperature(gen.variant, gen.row.date, 0)

\* C16 (amended): the two copies of create_sample_data cover the same date
\* range and use the same noise-free daily_trips and temperature on each
\* date; load_weather_data shares their noise-free temperature on the dates
\* it covers; the two part 2 generators cover the same range with the same
\* season, the same noise-free temperature and, Monday to Friday, the same
\* noise-free daily_trips; every range ends on 2022-12-31.
C16_VariantsShareWithinFamily ==
    (gen.variant \in DailyVariants /\ gen.n >= 1) =>
        LET d == gen.row.date
        IN  /\ \A v \in DailyVariants : GenEndDate(v) = 729
            /\ gen.variant \in {PagesDashboard, NotebooksDashboard} =>
                  /\ SameRange(PagesDashboard, NotebooksDashboard)
                  /\ GenDailyTrips(PagesDashboard, d, 0, 0)
                        = GenDailyTrips(NotebooksDashboard, d, 0, 0)
                  /\ GenTemperature(PagesDashboard, d, 0)
                        = GenTemperature(NotebooksDashboard, d, 0)
            /\ gen.variant = WeatherImpact =>
                  /\ GenStartDate(PagesDashboard) <= d
                  /\ GenTemperature(WeatherImpact, d, 0)
                        = GenTemperature(PagesDashboard, d, 0)
            /\ gen.variant \in {PagesPart2, NotebooksPart2} =>
                  /\ SameRange(PagesPart2, NotebooksPart2)
                  /\ GenSeason(PagesPart2, d) = GenSeason(NotebooksPart2, d)
                  /\ GenTemperature(PagesPart2, d, 0)
                        = GenTemperature(NotebooksPart2, d, 0)
                  /\ Weekday(d) < 5 =>
                        GenDailyTrips(PagesPart2, d, 0, 0)
                            = GenDailyTrips(NotebooksPart2, d, 0, 0)

C16_Witness ==
    /\ gen.variant = PagesDashboard
    /\ gen.done
    /\ gen.row.date = GenEndDate(NotebooksDashboard)
    /\ GenDailyTrips(PagesDashboard, gen.row.date, 0, 0)
          # GenDailyTrips(PagesPart2, gen.row.date, 0, 0)


---------------------------------------------------------------------------
(* Properties of the loader: real data, the file system, notices *)

\* the first existing candidate of a list, "" when none exists
FirstExisting(files) ==
    IF ExistingIdx(files) = {} THEN "" ELSE files[Min(ExistingIdx(files))]

\* a stations CSV and a daily CSV that parse are what the probe loops meet
RealDataInPlace ==
    /\ FirstExisting(possible_station_files) # ""
    /\ FirstExisting(possible_daily_files) # ""
    /\ fs[FirstExisting(possible_station_files)].kind = "csv"
    /\ fs[FirstExisting(possible_daily_files)].kind = "csv"
    /\ fs[FirstExisting(possible_daily_files)].date = "ok"

\* C17: once a stations CSV and a daily CSV are in place at candidate paths
\* and the dashboard has been restarted (its cache is empty), the next load
\* returns the tables read from those files and emits no "Using sample
\* data" warning.
C17_RealDataLoadsAfterRestart ==
    (BodyRan /\ RealDataInPlace) =>
        /\ out.run.status = "returned"
        /\ ~out.run.sampled
        /\ SampleWarning \notin Range(out.run.notices)
        /\ out.run.top_stations
              = DataFrame(fs[FirstExisting(possible_station_files)].rows)
        /\ out.run.daily_data
              = DataFrame(fs[FirstExisting(possible_daily_files)].rows)

\* an earlier process served sample data; the files were placed, the
\* dashboard restarted, and the load after the restart ran
C17_Witness ==
    /\ prevSample # NoneDF
    /\ BodyRan
    /\ RealDataInPlace
    /\ NumRows(out.run.top_stations) > 0
    /\ NumRows(out.run.daily_data) > 0


\* C19: load_dashboard_data never returns a loaded table together with a
\* synthetic one: what it returns is either the stations table and the
\* daily table read from files, with no warning, or the complete pair of
\* create_sample_data with the warning; when only one of the two kinds of
\* file is found, the table loaded from it is discarded.
C19_NeverMixesLoadedAndSample ==
    (BodyRan /\ out.run.status = "returned") =>
        LET sf == FirstExisting(possible_station_files)
            df == FirstExisting(possible_daily_files)
            c  == create_sample_data(firstLoad.rng)
        IN  \/ /\ sf # "" /\ df # ""
               /\ ~out.run.sampled
               /\ out.run.top_stations = DataFrame(fs[sf].rows)
               /\ out.run.daily_data = DataFrame(fs[df].rows)
               /\ SampleWarning \notin Range(out.run.notices)
            \/ /\ sf = "" \/ df = ""
               /\ out.run.sampled
               /\ out.run.top_stations = c.top_stations
               /\ out.run.daily_data = c.daily_data
               /\ SampleWarning \in Range(out.run.notices)

\* only the stations file was found and read; the pair returned is the
\* sample pair
C19_Witness ==
    /\ BodyRan
    /\ out.run.status = "returned"
    /\ FirstExisting(possible_station_files) # ""
    /\ Len(fs[FirstExisting(possible_station_files)].rows) > 0
    /\ FirstExisting(possible_daily_files) = ""
    /\ out.run.read = << FirstExisting(possible_station_files) >>
    /\ out.run.top_stations = SampleStations


\* C20 (as claimed): in the notebooks variant, whenever the success notice
\* "Loaded stations from: <path>" (or "Loaded daily data from: <path>") is
\* emitted during a load, the table that load returns is the one read from
\* <path>.
C20_NoticeNamesReturnedTable ==
    (BodyRan /\ out.run.status = "returned") =>
        \A k \in 1..Len(out.run.notices) :
            LET nt == out.run.notices[k]
            IN  /\ (nt.kind = "success" /\ nt.text = "Loaded stations from") =>
                      out.run.top_stations = DataFrame(fs[nt.path].rows)
                /\ (nt.kind = "success" /\ nt.text = "Loaded daily data from") =>
                      out.run.daily_data = DataFrame(fs[nt.path].rows)


\* C18: no sequence of page loads creates, modifies or deletes a file.  The
\* data loader and the map loader only test whether candidate paths exist
\* and read them, so every step in which the script runs leaves the CSV
\* files and the map files as they were.
C18_PageLoadsLeaveFilesAlone ==
    [][out' # NoOutcome => (fs' = fs /\ mapFs' = mapFs)]_vars

\* a script run that read a stations CSV, a daily CSV and a map file
C18_Witness ==
    /\ out.status = "rendered"
    /\ Len(out.run.read) = 2
    /\ mapView.status = "embedded"
    /\ mapView.read # << >>
    /\ fs = RealDataFs


---------------------------------------------------------------------------
(* Properties of the page: the KPIs and the map *)

\* the largest trip_count of a non-empty sequence of station rows
MaxTripCount(rows) ==
    CHOOSE m \in { rows[i].trip_count : i \in 1..Len(rows) } :
        \A i \in 1..Len(rows) : rows[i].trip_count <= m

\* C21 (as claimed): the Busiest Station KPI, taken from row 0 of the
\* station table, equals the largest trip_count over all rows of the table
\* the loader returned, whether that table came from a file or is the
\* sample table.
C21_BusiestIsMaximum ==
    out.status = "rendered" =>
        out.busiest = MaxTripCount(Rows(out.run.top_stations))


\* the map block of the latest script run did not embed a map
MapFailed == mapView.status \notin {"none", "embedded"}

\* C22: a failure of the map never stops the page: whether no candidate map
\* file exists or opening or reading one raises, a notice is shown in place
\* of the map and the sections after the map (the KPIs, the insights) run
\* as they do when the map is embedded.
C22_MapFailureNeverStopsPage ==
    MapFailed =>
        /\ mapView.status \in {"not_found", "unavailable"}
        /\ out.status \in {"rendered", "page_raised"}
        /\ out = ScriptRun(out.run, out.hit)

\* the first existing map candidate could not be read, and the page was
\* rendered to its end
C22_Witness ==
    /\ mapView.status = "unavailable"
    /\ mapView.read # << >>
    /\ out.status = "rendered"
    /\ out.busiest > 0


\* the map candidates that exist, by index, and the first of them
ExistingMapIdx == { i \in 1..Len(map_paths) : Exists(mapFs, map_paths[i]) }

FirstExistingMap ==
    IF ExistingMapIdx = {} THEN "" ELSE map_paths[Min(ExistingMapIdx)]

\* C23 (as claimed): the map component is embedded exactly when at least
\* one candidate map path exists, and what is embedded is the unmodified
\* content of the first existing candidate in list order; otherwise the
\* "map not available" notice is shown.
C23_MapEmbeddedIffCandidateExists ==
    mapView.status # "none" =>
        /\ (mapView.status = "embedded") <=> (ExistingMapIdx # {})
        /\ mapView.status = "embedded" =>
              mapView.html = mapFs[FirstExistingMap].html
        /\ mapView.status # "embedded" =>
              mapView.status \in {"not_found", "unavailable"}

\* C23 (amended): the map component is embedded exactly when at least one
\* candidate map path exists and the first existing candidate in list order
\* can be read and is not empty; what is embedded is the content of that
\* candidate as read; otherwise a notice is shown in place of the map, and
\* no later candidate is tried.
C23_MapEmbeddedIffFirstCandidateReadable ==
    mapView.status # "none" =>
        /\ (mapView.status = "embedded") <=>
              ( /\ ExistingMapIdx # {}
                /\ mapFs[FirstExistingMap].kind = "html"
                /\ mapFs[FirstExistingMap].html # "" )
        /\ mapView.status = "embedded" =>
              mapView.html = mapFs[FirstExistingMap].html
        /\ mapView.status # "embedded" =>
              mapView.status \in {"not_found", "unavailable"}
        /\ ExistingMapIdx # {} => mapView.read = << FirstExistingMap >>
        /\ ExistingMapIdx = {} => mapView.read = << >>

\* two candidates hold different maps; the one embedded is the first
C23_Witness ==
    /\ mapView.status = "embedded"
    /\ Cardinality(ExistingMapIdx) = 2
    /\ \E i \in ExistingMapIdx :
          /\ mapFs[map_paths[i]].kind = "html"
          /\ mapFs[map_paths[i]].html \notin {"", mapView.html}

---------------------------------------------------------------------------
(* The season filter of the part 2 dashboards *)

\* the full daily series behind the latest script run
ViewDaily == Part2Daily(view.variant, view.g)

\* the rows the Weather Impact page of the latest script run works on
ViewDisplay ==
    display_data(view.variant, ViewDaily, view.page, view.has_filter,
                 view.selected_seasons)

\* the positions of the full series the season selection asks for: those of
\* a selected season, and every position when nothing is selected
KeptPositions(daily, sel) ==
    IF sel = {} THEN 1..Len(daily)
    ELSE { i \in 1..Len(daily) : daily[i].season \in sel }

\* C24: on the Weather Impact page of both part 2 dashboards the displayed
\* rows are exactly the rows of the full daily series whose season is in the
\* selected set, and all rows when the selected set is empty: no row is
\* added, altered or duplicated, and the rows stay in the order of the full
\* series (which is in strictly ascending date order); what the page shows
\* is computed from these rows
C24_FilterKeepsExactlySelectedRows ==
    view.weather.shown =>
        LET daily == ViewDaily
            shown == ViewDisplay
            keep  == KeptPositions(daily, view.selected_seasons)
        IN  /\ Len(shown) = Cardinality(keep)
            /\ Range(shown) = { daily[i] : i \in keep }
            /\ \A k \in 1..(Len(shown) - 1) : shown[k].date < shown[k + 1].date
            /\ \A i \in 1..(Len(daily) - 1) : daily[i].date < daily[i + 1].date
            /\ view.selected_seasons = {} => Len(shown) = Len(daily)
            /\ view.weather.rows = Cardinality(keep)
            /\ view.weather.first = daily[Min(keep)].date

\* a Weather Impact page with two of the four seasons selected, so that some
\* rows are displayed and some are not
C24_Witness ==
    /\ view.weather.shown
    /\ view.selected_seasons = {"Winter", "Summer"}
    /\ view.weather.rows > 0
    /\ view.weather.rows < Len(ViewDaily)

---------------------------------------------------------------------------
(* The Weather Impact page of pages/nyc_bike_dashboard_part_2.py *)

\* C25: for every season selection the 'Seasonal Difference' metric is a
\* defined number, the mean daily_trips of the displayed Spring and Summer
\* rows minus the mean of the displayed Winter and Fall rows (shown to the
\* nearest whole number), and neither of the two subsets is empty
C25_SeasonalDifferenceDefined ==
    (view.weather.shown /\ view.weather.has_diff) =>
        LET shown == ViewDisplay
            warm  == SelectSeq(shown, LAMBDA r : r.season \in {"Spring", "Summer"})
            cold  == SelectSeq(shown, LAMBDA r : r.season \in {"Winter", "Fall"})
            \* twice the distance of the metric from the difference of the
            \* means, as a fraction of m
            m     == Len(warm) * Len(cold)
            k     == (SumTrips(warm) \div Len(warm)) - (SumTrips(cold) \div Len(cold))
                        - view.weather.seasonal_diff.value
            f     == (SumTrips(warm) % Len(warm)) * Len(cold)
                        - (SumTrips(cold) % Len(cold)) * Len(warm)
        IN  /\ warm # << >>
            /\ cold # << >>
            /\ view.weather.seasonal_diff.defined
            /\ k \in (0 - 1)..1
            /\ 2 * (k * m + f) <= m
            /\ 2 * (k * m + f) >= 0 - m


\* C26: every warm-season highlight band that is drawn covers a month, May
\* to October of 2021 or 2022, in which the displayed data has at least one
\* row, for every season selection
C26_BandsCoverDisplayedMonths ==
    (view.weather.shown /\ view.weather.has_diff) =>
        LET shown == ViewDisplay
            dates == { shown[i].date : i \in 1..Len(shown) }
        IN  \A b \in view.weather.bands :
                /\ b[1] \in {2021, 2022}
                /\ b[2] \in 5..10
                /\ \E d \in dates :
                      /\ d >= MonthStart(b[1], b[2])
                      /\ d < MonthStart(b[1], b[2] + 1)

---------------------------------------------------------------------------
(* The Most Popular Stations page of the part 2 dashboards *)

\* C27: on the Most Popular Stations page of both part 2 dashboards the
\* station table, its order and the three station KPIs are those of the
\* variant's full station table, whatever seasons are selected: the season
\* filter changes the filter note only
C27_StationOutputIgnoresSeasons ==
    view.station.shown =>
        LET top == StationTable(view.variant)
        IN  /\ view.station.table = top
            /\ view.station.total_rides = SumTripCount(top)
            /\ 2 * Len(top) * view.station.avg_station <= 2 * SumTripCount(top) + Len(top)
            /\ 2 * Len(top) * view.station.avg_station > 2 * SumTripCount(top) - Len(top)
            /\ view.station.top_station = top[1]

\* a Most Popular Stations page seen with a single season selected
C27_Witness ==
    /\ view.station.shown
    /\ view.selected_seasons = {"Winter"}
    /\ view.station.filter_note = "seasons selected"
    /\ Len(view.station.table) = 20

====
